---- MODULE Spec2Model ----
(***************************************************************************)
(* Residual vector quantization (vector_quantization/utils/residual_vq.py) *)
(* as a state machine: construction of ResidualVQ / GroupedResidualVQ,     *)
(* the forward pass with quantizer dropout, and index -> code lookup.      *)
(*                                                                         *)
(* Tensors of shape (b, n, d) are sequences over the flattened positions   *)
(* 1..NumPositions of integer vectors (sequences of length d).  An absent  *)
(* value (Python None) is the empty sequence <<>>, a present value v of a  *)
(* scalar argument is <<v>>.                                               *)
(***************************************************************************)
EXTENDS Integers, Sequences, FiniteSets, TLC

\* ---------------------------------------------------------------- bounds
MaxQuantizers == 3
CodebookSize == 2
CodebookDim == 2
NumPositions == 2
MaxSeed == 1
MaxGroups == 2
MaxMultiple == 2
MaxWorld == 2
MaxRandTensor == 2

Positions == 1..NumPositions
XVariants == {1, 2}
None == <<>>

\* ------------------------------------------------------- helper functions
exists(val) == val # None

default(val, d) == IF exists(val) THEN val ELSE d

ceil(num, mult) == IF num % mult = 0 THEN num \div mult ELSE (num \div mult) + 1

round_up_multiple(num, mult) == ceil(num, mult) * mult

is_distributed(world) == world > 1

\* ------------------------------------------------------ vector arithmetic
\* the value v itself, evaluated once (a tensor expression is otherwise
\* re-evaluated at every use of one of its entries)
Value(v) == CHOOSE e \in {v} : e = e

Zeros(d) == [i \in 1..d |-> 0]

VAdd(a, b) == [i \in 1..Len(a) |-> a[i] + b[i]]

VSub(a, b) == [i \in 1..Len(a) |-> a[i] - b[i]]

TAdd(s, t) == [p \in 1..Len(s) |-> VAdd(s[p], t[p])]

TSub(s, t) == [p \in 1..Len(s) |-> VSub(s[p], t[p])]

ZeroTensor(d) == [p \in Positions |-> Zeros(d)]

RECURSIVE SumFirst(_, _)
SumFirst(s, n) == IF n = 0 THEN 0 ELSE s[n] + SumFirst(s, n - 1)

\* the sum of a sequence of integers
SumInts(s) == SumFirst(s, Len(s))

\* the sum of a sequence of tensors of shape (positions, d), entry by entry
SumTensors(s, d) ==
    [p \in Positions |-> [i \in 1..d |-> SumInts([k \in 1..Len(s) |-> s[k][p][i]])]]

SqDist(a, b) == SumInts([i \in 1..Len(a) |-> (a[i] - b[i]) * (a[i] - b[i])])

\* ------------------------------------------------------------ projections
\* nn.Linear(in, out) with fixed (already learned) integer parameters.
Weight(j, i) == ((i + 2 * j) % 3) - 1

Bias(j) == j - 1

Linear(v, out_dim) ==
    [j \in 1..out_dim |-> SumInts([i \in 1..Len(v) |-> Weight(j, i) * v[i]]) + Bias(j)]

project_in(rvq, x) ==
    IF rvq.has_projections THEN [p \in 1..Len(x) |-> Linear(x[p], CodebookDim)] ELSE x

project_out(rvq, q) ==
    IF rvq.has_projections THEN [p \in 1..Len(q) |-> Linear(q[p], rvq.dim)] ELSE q

\* -------------------------------------------------------------- codebooks
\* The embedding table of stage q of the engine of group `variant` as
\* initialised: CodebookSize vectors of CodebookDim integers.
EmbedInit(variant, q) ==
    [c \in 1..CodebookSize |->
        [d \in 1..CodebookDim |->
            IF d = 1 THEN (2 * c - CodebookSize - 1) * (MaxQuantizers + 2 - q)
                              * (IF variant % 2 = 1 THEN 1 ELSE -1)
                     ELSE ((c + d + q + variant) % 3) - 1]]

\* layers built at construction; with shared_codebook every layer aliases
\* the codebook of the first.
Layers(num_quantizers, shared_codebook, variant) ==
    [q \in 1..num_quantizers |->
        IF shared_codebook THEN EmbedInit(variant, 1) ELSE EmbedInit(variant, q)]

codebooks(rvq) == rvq.layers


\* ------------------------------------------------- the stage quantizer
\* VectorQuantize (the single-stage collaborator): nearest codebook entry
\* by squared distance, lowest index on ties.
Nearest(embed, v) ==
    CHOOSE c \in 0..(CodebookSize - 1) :
        \A c2 \in 0..(CodebookSize - 1) :
            \/ SqDist(embed[c + 1], v) < SqDist(embed[c2 + 1], v)
            \/ SqDist(embed[c + 1], v) = SqDist(embed[c2 + 1], v) /\ c <= c2

\* quantize(residual, index_override) -> quantized, indices, loss, breakdown;
\* with an index override only (quantized, cross-entropy loss) comes back.
VectorQuantize(embed, x, layer_indices) ==
    LET embed_ind == Value([p \in 1..Len(x) |-> Nearest(embed, x[p])])
        quantize == Value([p \in 1..Len(x) |-> embed[embed_ind[p] + 1]])
        commitment == SumInts([p \in 1..Len(x) |-> SqDist(quantize[p], x[p])])
        diversity == Cardinality({embed_ind[p] : p \in 1..Len(x)})
    IN  IF exists(layer_indices)
        THEN [quantized |-> quantize,
              rest |-> <<Cardinality({p \in 1..Len(x) : embed_ind[p] # layer_indices[p]})>>]
        ELSE [quantized |-> quantize,
              rest |-> <<embed_ind, commitment + diversity,
                         [commitment |-> commitment, codebook_diversity |-> diversity]>>]

\* ----------------------------------------------------------- construction
\* assert heads == 1
HeadsOk(heads) == heads = 1

\* mutant: the cutoff check is off by one
CutoffIndexOk_loose(c) == c >= -1

\* assert quantize_dropout_cutoff_index >= 0
CutoffIndexOk(c) == c >= 0

\* ResidualVQ.__init__: the engine object, or the exception it raises.
ResidualVQ_init(a) ==
    IF ~HeadsOk(a.heads) THEN [raised |-> "AssertionError", obj |-> <<>>]
    ELSE IF ~CutoffIndexOk(a.quantize_dropout_cutoff_index)
    THEN [raised |-> "AssertionError", obj |-> <<>>]
    ELSE [raised |-> "",
          obj |-> <<[dim |-> a.dim,
                     has_projections |-> (CodebookDim * a.heads # a.dim),
                     num_quantizers |-> a.num_quantizers,
                     layers |-> Layers(a.num_quantizers, a.shared_codebook, a.group),
                     quantize_dropout |-> (a.quantize_dropout /\ a.num_quantizers > 1),
                     quantize_dropout_cutoff_index |-> a.quantize_dropout_cutoff_index,
                     quantize_dropout_multiple_of |-> a.quantize_dropout_multiple_of]>>]

\* assert (dim % groups) == 0
GroupsOk(dim, groups) == (dim % groups) = 0

\* GroupedResidualVQ.__init__: one ResidualVQ per group over dim // groups
\* features, all built from the same keyword arguments.
GroupedResidualVQ_init(a) ==
    IF ~GroupsOk(a.dim, a.groups) THEN [raised |-> "AssertionError", objs |-> <<>>]
    ELSE LET sub == [g \in 1..a.groups |->
                        ResidualVQ_init([a EXCEPT !.dim = a.dim \div a.groups,
                                                  !.group = g])]
         IN  IF sub[1].raised # ""
             THEN [raised |-> sub[1].raised, objs |-> <<>>]
             ELSE [raised |-> "", objs |-> [g \in 1..a.groups |-> sub[g].obj[1]]]

\* ------------------------------------------------- index -> code lookup
\* mutant: missing stages padded with index 0
pad_zero(indices, n) ==
    [p \in 1..Len(indices) |-> indices[p] \o [q \in 1..n |-> 0]]

\* F.pad(indices, (0, n), value = -1) on the trailing (stage) axis.
pad(indices, n) ==
    [p \in 1..Len(indices) |-> indices[p] \o [q \in 1..n |-> -1]]

masked_fill(row, mask, value) == [q \in 1..Len(row) |-> IF mask[q] THEN value ELSE row[q]]

\* get_at('q [c] d, b n q -> q b n d', codebooks, indices)
get_at(books, indices) ==
    [q \in 1..Len(books) |-> [p \in 1..Len(indices) |-> books[q][indices[p][q] + 1]]]

\* mutant: the codes of dropped stages are left as fetched
mask_codes_unmasked(all_codes, mask) == all_codes

\* all_codes.masked_fill(mask, 0.): the codes of dropped stages zeroed
mask_codes(all_codes, mask) ==
    [q \in 1..Len(all_codes) |->
        [p \in 1..Len(all_codes[q]) |->
            IF mask[p][q] THEN Zeros(CodebookDim) ELSE all_codes[q][p]]]

\* ResidualVQ.get_codes_from_indices: indices is (positions x stages); the
\* result is (stages x positions x dim), or the assertion failure.
get_codes_from_indices(rvq, indices) ==
    LET quantize_dim == Len(indices[1])
        too_coarse == quantize_dim < rvq.num_quantizers
        padded == IF too_coarse THEN pad(indices, rvq.num_quantizers - quantize_dim)
                                ELSE indices
        mask == [p \in 1..Len(padded) |-> [q \in 1..Len(padded[p]) |-> padded[p][q] = -1]]
        filled == [p \in 1..Len(padded) |-> masked_fill(padded[p], mask[p], 0)]
        all_codes == get_at(codebooks(rvq), filled)
    IN  IF too_coarse /\ ~rvq.quantize_dropout
        THEN [raised |-> "AssertionError", lookup |-> <<>>, codes |-> <<>>]
        ELSE [raised |-> "",
              lookup |-> filled,
              codes |-> mask_codes(all_codes, mask)]

\* ResidualVQ.get_output_from_indices
get_output_from_indices(rvq, indices) ==
    LET codes == get_codes_from_indices(rvq, indices).codes
    IN  project_out(rvq, SumTensors(codes, CodebookDim))


\* ------------------------------------------------------------------ state
VARIABLES
    ctor,        \* the last construction: its arguments and what it raised
    rvqs,        \* the engines built: <<self>> for a ResidualVQ, self.rvqs for a grouped one
    training,    \* nn.Module.training
    world_size,  \* dist.get_world_size() of the process group (1: not distributed)
    pc,          \* ResidualVQ.forward: "idle", "loop", "end", "returned", "raised"
    self,        \* index in rvqs of the engine whose forward is running
    rand_quantize_dropout_fixed_seed,
    indices,
    x_pjt_in,
    residual,
    quantized_out,
    all_indices,
    all_losses,
    all_loss_breakdown,
    all_commit_loss,
    ce_losses,
    should_quantize_dropout,
    rand_quantize_dropout_index,
    quantizer_index,
    calls,       \* the layer invocations of this call, in order
    ret,         \* what forward returned
    raised,      \* the exception forward raised ("" when none)
    gpc,         \* GroupedResidualVQ.forward: "idle", "invoke", "returned", "raised"
    forward_kwargs,
    x_chunk,
    g_indices,
    out,
    out_cutoffs, \* per group called so far: whether dropout was active, and its cutoff
    g_ret,
    codes_ret,   \* the last get_codes_from_indices call: its argument and result
    d_pc,        \* per process of the group: where its dropout decision stands
    d_t,         \* per process: the tensor t it hands to all_reduce
    d_handle,    \* per process: what all_reduce returned to it
    d_index,     \* per process: the rand_quantize_dropout_index it ended with
    d_raised,    \* per process: the exception its forward raised
    d_reduced    \* per process: the collective reductions it has completed

engineVars == <<ctor, rvqs, training, world_size>>

frameVars == <<pc, self, rand_quantize_dropout_fixed_seed, indices, x_pjt_in, residual,
               quantized_out, all_indices, all_losses, all_loss_breakdown, all_commit_loss,
               ce_losses, should_quantize_dropout, rand_quantize_dropout_index,
               quantizer_index, calls, ret, raised>>

groupVars == <<gpc, forward_kwargs, x_chunk, g_indices, out, out_cutoffs, g_ret>>

distVars == <<d_pc, d_t, d_handle, d_index, d_raised, d_reduced>>

vars == <<engineVars, frameVars, groupVars, codes_ret, distVars>>

NoCall == [kind |-> "none"]

EmptyFrame ==
    /\ pc = "idle"
    /\ self = 0
    /\ rand_quantize_dropout_fixed_seed = None
    /\ indices = None
    /\ x_pjt_in = <<>>
    /\ residual = <<>>
    /\ quantized_out = <<>>
    /\ all_indices = <<>>
    /\ all_losses = <<>>
    /\ all_loss_breakdown = <<>>
    /\ all_commit_loss = <<>>
    /\ ce_losses = <<>>
    /\ should_quantize_dropout = FALSE
    /\ rand_quantize_dropout_index = None
    /\ quantizer_index = 0
    /\ calls = <<>>
    /\ ret = NoCall
    /\ raised = ""

EmptyGroup ==
    /\ gpc = "idle"
    /\ forward_kwargs = None
    /\ x_chunk = <<>>
    /\ g_indices = <<>>
    /\ out = <<>>
    /\ out_cutoffs = <<>>
    /\ g_ret = NoCall

Init ==
    /\ ctor = [cls |-> "none"]
    /\ rvqs = <<>>
    /\ training = TRUE
    /\ world_size \in {1, MaxWorld}
    /\ EmptyFrame
    /\ EmptyGroup
    /\ codes_ret = NoCall
    /\ d_pc = <<>>
    /\ d_t = <<>>
    /\ d_handle = <<>>
    /\ d_index = <<>>
    /\ d_raised = <<>>
    /\ d_reduced = <<>>

\* ---------------------------------------------------------------- inputs
CtorArgs ==
    {a \in
    [heads : {1, 2},
     num_quantizers : 1..MaxQuantizers,
     quantize_dropout : BOOLEAN,
     quantize_dropout_cutoff_index : -1..MaxQuantizers,
     quantize_dropout_multiple_of : 1..MaxMultiple,
     shared_codebook : BOOLEAN] :
        a.quantize_dropout_cutoff_index <= a.num_quantizers}

\* an input tensor of shape (positions, d)
XTensor(variant, d) ==
    [p \in Positions |-> [i \in 1..d |-> ((variant * (3 * p + i) + p * i) % 7) - 3]]

\* target index tensors (positions x stages): sentinel-free ones whose
\* columns differ by stage and position, and one holding a sentinel
TargetIndices(n) ==
    {[p \in Positions |-> [q \in 1..n |-> (p + q) % CodebookSize]]}
    \cup {[p \in Positions |-> [q \in 1..n |-> IF p = 1 /\ q = n THEN -1 ELSE 0]]}

Seeds == 0..MaxSeed

\* random.Random(seed).randrange(start, stop) is a function of the seed and
\* the width of the range
randbelow(seed, width) == (5 * seed + 3 + 2 * width) % width


\* index tensors handed to get_codes_from_indices: w stage columns with
\* entries in -1..CodebookSize-1
CodeIndices(w) ==
    {[p \in Positions |-> [q \in 1..w |-> ((a + b * p + q) % (CodebookSize + 1)) - 1]] :
        a \in 0..CodebookSize, b \in 0..1}

\* ------------------------------------------------- the dropout decision
\* dist.all_reduce(t): sums in place over the processes; the synchronous
\* call returns no work handle
all_reduce(ts) == [tensor |-> SumInts(ts), handle |-> None]

\* .item() on what all_reduce returned
item(v) ==
    IF v = None THEN [raised |-> "AttributeError", value |-> 0]
                ELSE [raised |-> "", value |-> v[1]]

\* rand.randrange(start, stop) for a seeded generator
randrange(seed, start, stop) ==
    IF stop - start > 0
    THEN [raised |-> "", value |-> start + randbelow(seed, stop - start)]
    ELSE [raised |-> "ValueError", value |-> 0]

\* mutant: the rounding forgets to step back from the multiple
RoundCutoff_no_step_back(rvq, k) ==
    IF rvq.quantize_dropout_multiple_of # 1
    THEN round_up_multiple(k + 1, rvq.quantize_dropout_multiple_of)
    ELSE k

\* the rounding of the sampled index to the dropout granularity
RoundCutoff(rvq, k) ==
    IF rvq.quantize_dropout_multiple_of # 1
    THEN round_up_multiple(k + 1, rvq.quantize_dropout_multiple_of) - 1
    ELSE k

\* the outcomes of the block that samples rand_quantize_dropout_index:
\* the index, or the exception raised on the way
DropoutIndex(rvq, seed, world) ==
    LET start == rvq.quantize_dropout_cutoff_index
        stop == rvq.num_quantizers
        seeded(sd) == LET r == randrange(sd, start, stop)
                      IN  IF r.raised # "" THEN [raised |-> r.raised, index |-> None]
                          ELSE [raised |-> "", index |-> <<RoundCutoff(rvq, r.value)>>]
    IN  IF exists(seed) THEN {seeded(seed[1])}
        ELSE IF is_distributed(world)
        THEN {LET dropout_seed == item(all_reduce(ts).handle)
              IN  IF dropout_seed.raised # ""
                  THEN [raised |-> dropout_seed.raised, index |-> None]
                  ELSE seeded(dropout_seed.value) :
              ts \in [1..world -> 0..(MaxRandTensor - 1)]}
        ELSE IF stop - start > 0
        THEN {[raised |-> "", index |-> <<RoundCutoff(rvq, k)>>] : k \in start..(stop - 1)}
        ELSE {[raised |-> "ValueError", index |-> None]}

HasSentinel(idx) == \E p \in 1..Len(idx) : \E q \in 1..Len(idx[p]) : idx[p][q] = -1

ShouldQuantizeDropout(rvq, is_training, return_loss) ==
    is_training /\ rvq.quantize_dropout /\ ~return_loss

\* ------------------------------------------------- ResidualVQ.forward
\* entry of forward up to the stage loop, for engine s
ForwardBegin(s, x, idx, seed) ==
    LET rvq == rvqs[s]
        return_loss == exists(idx)
        sqd == ShouldQuantizeDropout(rvq, training, return_loss)
    IN  /\ self' = s
        /\ rand_quantize_dropout_fixed_seed' = seed
        /\ indices' = idx
        /\ x_pjt_in' = project_in(rvq, x)
        /\ residual' = x_pjt_in'
        /\ quantized_out' = ZeroTensor(CodebookDim)
        /\ all_indices' = <<>>
        /\ all_losses' = <<>>
        /\ all_loss_breakdown' = <<>>
        /\ all_commit_loss' = <<>>
        /\ ce_losses' = <<>>
        /\ quantizer_index' = 0
        /\ calls' = <<>>
        /\ ret' = NoCall
        /\ IF return_loss /\ HasSentinel(idx)
           THEN /\ pc' = "raised"
                /\ raised' = "AssertionError"
                /\ should_quantize_dropout' = FALSE
                /\ rand_quantize_dropout_index' = None
           ELSE IF ~sqd
           THEN /\ pc' = "loop"
                /\ raised' = ""
                /\ should_quantize_dropout' = FALSE
                /\ rand_quantize_dropout_index' = None
           ELSE \E o \in DropoutIndex(rvq, seed, world_size) :
                /\ pc' = IF o.raised # "" THEN "raised" ELSE "loop"
                /\ raised' = o.raised
                /\ should_quantize_dropout' = TRUE
                /\ rand_quantize_dropout_index' = o.index

\* mutant: the stage at the cutoff is skipped too
Dropped_from_cutoff(sqd, i, cutoff) == sqd /\ i >= cutoff[1]

\* whether the stage loop skips the stage at quantizer index i
Dropped(sqd, i, cutoff) == sqd /\ i > cutoff[1]

\* mutant: dropped stages report index 0
null_indices_zero == [p \in Positions |-> 0]

null_indices == [p \in Positions |-> -1]

null_loss == 0

\* quantized.detach(): the same values, cut from the gradient graph
detach(quantized) == quantized

\* mutant: the quantized output is added to the residual
NextResidual_added(res, quantized) == TAdd(res, detach(quantized))

\* residual = residual - quantized.detach()
NextResidual(res, quantized) == TSub(res, detach(quantized))

\* quantized_out = quantized_out + quantized
NextQuantizedOut(q_out, quantized) == TAdd(q_out, quantized)

\* one iteration of the stage loop
forward_layer ==
    /\ pc = "loop"
    /\ LET rvq == rvqs[self]
           return_loss == exists(indices)
           layer_indices == IF return_loss
                            THEN [p \in 1..Len(indices) |-> indices[p][quantizer_index + 1]]
                            ELSE None
           r == Value(VectorQuantize(rvq.layers[quantizer_index + 1], residual,
                                     layer_indices))
       IN  IF Dropped(should_quantize_dropout, quantizer_index, rand_quantize_dropout_index)
           THEN /\ all_indices' = Append(all_indices, null_indices)
                /\ all_losses' = Append(all_losses, null_loss)
                /\ UNCHANGED <<residual, quantized_out, ce_losses, all_loss_breakdown,
                               all_commit_loss, calls>>
           ELSE /\ residual' = NextResidual(residual, r.quantized)
                /\ quantized_out' = NextQuantizedOut(quantized_out, r.quantized)
                /\ calls' = Append(calls, [layer |-> quantizer_index,
                                           indices |-> layer_indices,
                                           quantized |-> r.quantized])
                /\ IF return_loss
                   THEN /\ ce_losses' = Append(ce_losses, r.rest[1])
                        /\ UNCHANGED <<all_indices, all_losses, all_loss_breakdown,
                                       all_commit_loss>>
                   ELSE /\ all_indices' = Append(all_indices, r.rest[1])
                        /\ all_losses' = Append(all_losses, r.rest[2])
                        /\ all_loss_breakdown' =
                               Append(all_loss_breakdown, r.rest[3].codebook_diversity)
                        /\ all_commit_loss' = Append(all_commit_loss, r.rest[3].commitment)
                        /\ UNCHANGED ce_losses
    /\ quantizer_index' = quantizer_index + 1
    /\ pc' = IF quantizer_index + 1 < rvqs[self].num_quantizers THEN "loop" ELSE "end"
    /\ UNCHANGED <<self, rand_quantize_dropout_fixed_seed, indices, x_pjt_in,
                   should_quantize_dropout, rand_quantize_dropout_index, ret, raised>>
    /\ UNCHANGED <<engineVars, groupVars, codes_ret, distVars>>

\* torch.stack(list, dim = -1) of per-stage tensors over the positions
stack_last(list) == [p \in Positions |-> [q \in 1..Len(list) |-> list[q][p]]]

\* torch.stack(list).mean(): undefined (raises) for an empty list
mean(list) == [sum |-> SumInts(list), count |-> Len(list)]

\* what the code after the stage loop returns or raises
ForwardResult(rvq, return_loss, breakdown, commit, q_out, ces, losses, inds, x_in) ==
    IF breakdown = <<>> \/ commit = <<>>
    THEN [kind |-> "raise", raised |-> "RuntimeError"]
    ELSE IF return_loss
    THEN [kind |-> "ce", quantized_down |-> project_out(rvq, q_out),
          ce_loss |-> SumInts(ces)]
    ELSE [kind |-> "discovery",
          quantized_down |-> project_out(rvq, q_out),
          all_indices |-> stack_last(inds),
          all_losses |-> losses,
          quantized_out |-> q_out,
          x_pjt_in |-> x_in,
          mean_breakdown |-> mean(breakdown),
          mean_commit |-> mean(commit)]

\* the code after the stage loop
forward_end ==
    /\ pc = "end"
    /\ LET r == ForwardResult(rvqs[self], exists(indices), all_loss_breakdown,
                              all_commit_loss, quantized_out, ce_losses, all_losses,
                              all_indices, x_pjt_in)
       IN  IF r.kind = "raise"
           THEN /\ pc' = "raised"
                /\ raised' = r.raised
                /\ ret' = NoCall
           ELSE /\ pc' = "returned"
                /\ raised' = ""
                /\ ret' = r
    /\ UNCHANGED <<self, rand_quantize_dropout_fixed_seed, indices, x_pjt_in, residual,
                   quantized_out, all_indices, all_losses, all_loss_breakdown,
                   all_commit_loss, ce_losses, should_quantize_dropout,
                   rand_quantize_dropout_index, quantizer_index, calls>>
    /\ UNCHANGED <<engineVars, groupVars, codes_ret, distVars>>


\* --------------------------------------------------------- the API calls
\* the record of a finished call, dropped before the next call
ClearFrame ==
    /\ pc' = "idle"
    /\ self' = 0
    /\ rand_quantize_dropout_fixed_seed' = None
    /\ indices' = None
    /\ x_pjt_in' = <<>>
    /\ residual' = <<>>
    /\ quantized_out' = <<>>
    /\ all_indices' = <<>>
    /\ all_losses' = <<>>
    /\ all_loss_breakdown' = <<>>
    /\ all_commit_loss' = <<>>
    /\ ce_losses' = <<>>
    /\ should_quantize_dropout' = FALSE
    /\ rand_quantize_dropout_index' = None
    /\ quantizer_index' = 0
    /\ calls' = <<>>
    /\ ret' = NoCall
    /\ raised' = ""

ClearGroup ==
    /\ gpc' = "idle"
    /\ forward_kwargs' = None
    /\ x_chunk' = <<>>
    /\ g_indices' = <<>>
    /\ out' = <<>>
    /\ out_cutoffs' = <<>>
    /\ g_ret' = NoCall

Constructed(cls) == ctor.cls = cls /\ ctor.raised = ""

\* no call is running and none has left its record
NoCallRunning == pc = "idle" /\ gpc = "idle" /\ codes_ret = NoCall

\* a call has finished: its result or exception is with the caller
CallFinished ==
    \/ gpc = "idle" /\ pc \in {"returned", "raised"}
    \/ gpc \in {"returned", "raised"}
    \/ codes_ret # NoCall

WithDim(a, d, g) ==
    [heads |-> a.heads, num_quantizers |-> a.num_quantizers,
     quantize_dropout |-> a.quantize_dropout,
     quantize_dropout_cutoff_index |-> a.quantize_dropout_cutoff_index,
     quantize_dropout_multiple_of |-> a.quantize_dropout_multiple_of,
     shared_codebook |-> a.shared_codebook,
     dim |-> d, groups |-> g, group |-> 1]

\* ResidualVQ(dim = d, **a)
ConstructResidualVQ ==
    /\ ctor.cls = "none"
    /\ \E a \in CtorArgs, d \in (CodebookDim - 1)..CodebookDim :
        LET args == WithDim(a, d, 1)
            r == ResidualVQ_init(args)
        IN  /\ ctor' = [cls |-> "ResidualVQ", args |-> args, raised |-> r.raised]
            /\ rvqs' = r.obj
    /\ UNCHANGED <<training, world_size, frameVars, groupVars, codes_ret, distVars>>

\* GroupedResidualVQ(dim = d, groups = g, **a)
ConstructGroupedResidualVQ ==
    /\ ctor.cls = "none"
    /\ \E a \in CtorArgs, g \in 1..MaxGroups, d \in CodebookDim..(CodebookDim + 1) :
        LET args == WithDim(a, d, g)
            r == GroupedResidualVQ_init(args)
        IN  /\ ctor' = [cls |-> "GroupedResidualVQ", args |-> args, raised |-> r.raised]
            /\ rvqs' = r.objs
    /\ UNCHANGED <<training, world_size, frameVars, groupVars, codes_ret, distVars>>

\* module.train() / module.eval()
SetTraining(mode) ==
    /\ ctor.cls # "none" /\ ctor.raised = ""
    /\ NoCallRunning
    /\ training # mode
    /\ training' = mode
    /\ UNCHANGED <<ctor, rvqs, world_size, frameVars, groupVars, codes_ret, distVars>>

train == SetTraining(TRUE)

eval == SetTraining(FALSE)

\* ResidualVQ.forward(x, indices = idx, rand_quantize_dropout_fixed_seed = seed)
forward ==
    /\ Constructed("ResidualVQ")
    /\ NoCallRunning
    /\ \E xv \in XVariants,
          idx \in {None} \cup TargetIndices(rvqs[1].num_quantizers),
          seed \in {None} \cup {<<sd>> : sd \in Seeds} :
        ForwardBegin(1, XTensor(xv, rvqs[1].dim), idx, seed)
    /\ UNCHANGED <<engineVars, groupVars, codes_ret, distVars>>

\* ResidualVQ.get_codes_from_indices(idx), recorded with its argument
GetCodesFromIndices ==
    /\ Constructed("ResidualVQ")
    /\ NoCallRunning
    /\ \E w \in 0..rvqs[1].num_quantizers : \E idx \in CodeIndices(w) :
        LET r == get_codes_from_indices(rvqs[1], idx)
        IN  codes_ret' = [kind |-> "codes", indices |-> idx, raised |-> r.raised,
                          lookup |-> r.lookup, codes |-> r.codes]
    /\ UNCHANGED <<engineVars, frameVars, groupVars, distVars>>

\* ------------------------------------------- GroupedResidualVQ.forward
\* x.chunk(groups, dim = -1)
chunk(x, groups) ==
    LET dim_per_group == Len(x[1]) \div groups
    IN  [g \in 1..groups |->
            [p \in 1..Len(x) |->
                SubSeq(x[p], (g - 1) * dim_per_group + 1, g * dim_per_group)]]

\* the entries zip_longest pairs with group g
ChunkIndices(idxs, g) == IF g <= Len(idxs) THEN idxs[g] ELSE None

RECURSIVE Concat(_)
Concat(vs) == IF vs = <<>> THEN <<>> ELSE Head(vs) \o Concat(Tail(vs))

\* torch.cat(tensors, dim = -1)
cat(ts) == [p \in Positions |-> Concat([g \in 1..Len(ts) |-> ts[g][p]])]

\* what the grouped forward returns from the outputs of its groups
GroupedResult(return_ce_loss, o) ==
    IF return_ce_loss
    THEN [kind |-> "ce",
          quantized_fd |-> cat([g \in 1..Len(o) |-> o[g].quantized_down]),
          ce_loss |-> SumInts([g \in 1..Len(o) |-> o[g].ce_loss])]
    ELSE [kind |-> "discovery",
          quantized_fd |-> cat([g \in 1..Len(o) |-> o[g].quantized_down]),
          all_indices |-> [g \in 1..Len(o) |-> o[g].all_indices],
          commit_losses |-> [g \in 1..Len(o) |-> o[g].all_losses],
          quantized_out_cat |-> cat([g \in 1..Len(o) |-> o[g].quantized_out]),
          x_pjt_in_cat |-> cat([g \in 1..Len(o) |-> o[g].x_pjt_in]),
          loss_breakdown_stack |-> [g \in 1..Len(o) |-> o[g].mean_breakdown],
          loss_commit_stack |-> [g \in 1..Len(o) |-> o[g].mean_commit]]

\* mutant: every group gets a seed of its own
GroupSeed_per_group(kwargs, g) == <<kwargs.rand_quantize_dropout_fixed_seed[1] + g>>

\* the seed every group is called with
GroupSeed(kwargs, g) == kwargs.rand_quantize_dropout_fixed_seed

\* entry of the grouped forward, up to the call of the first group
grouped_forward ==
    /\ Constructed("GroupedResidualVQ")
    /\ NoCallRunning
    /\ \E xv \in XVariants, nidx \in {0, ctor.args.groups, ctor.args.groups + 1},
          sd \in Seeds :
        LET x == XTensor(xv, ctor.args.dim)
            target == [p \in Positions |->
                          [q \in 1..rvqs[1].num_quantizers |-> (p + q) % CodebookSize]]
            idxs == [g \in 1..nidx |-> target]
            kwargs == [rand_quantize_dropout_fixed_seed |-> <<sd>>]
        IN  IF ~(Len(idxs) = 0 \/ Len(idxs) = ctor.args.groups)
            THEN /\ gpc' = "raised"
                 /\ g_ret' = [kind |-> "raise", raised |-> "AssertionError"]
                 /\ forward_kwargs' = None
                 /\ x_chunk' = chunk(x, ctor.args.groups)
                 /\ g_indices' = idxs
                 /\ out' = <<>>
                 /\ out_cutoffs' = <<>>
                 /\ UNCHANGED frameVars
            ELSE /\ gpc' = "invoke"
                 /\ g_ret' = NoCall
                 /\ forward_kwargs' = kwargs
                 /\ x_chunk' = chunk(x, ctor.args.groups)
                 /\ g_indices' = idxs
                 /\ out' = <<>>
                 /\ out_cutoffs' = <<>>
                 /\ ForwardBegin(1, chunk(x, ctor.args.groups)[1], ChunkIndices(idxs, 1),
                                 GroupSeed(kwargs, 1))
    /\ UNCHANGED <<engineVars, codes_ret, distVars>>

\* a group's call returned: keep its output and call the next group, or
\* combine the outputs after the last
grouped_next ==
    /\ gpc = "invoke"
    /\ pc = "returned"
    /\ out' = Append(out, ret)
    /\ out_cutoffs' = Append(out_cutoffs, [active |-> should_quantize_dropout,
                                            index |-> rand_quantize_dropout_index])
    /\ IF Len(out) + 1 < Len(rvqs)
       THEN /\ ForwardBegin(Len(out) + 2, x_chunk[Len(out) + 2],
                            ChunkIndices(g_indices, Len(out) + 2),
                            GroupSeed(forward_kwargs, Len(out) + 2))
            /\ UNCHANGED <<gpc, g_ret>>
       ELSE /\ gpc' = "returned"
            /\ g_ret' = GroupedResult(Len(g_indices) > 0, Append(out, ret))
            /\ UNCHANGED frameVars
    /\ UNCHANGED <<forward_kwargs, x_chunk, g_indices>>
    /\ UNCHANGED <<engineVars, codes_ret, distVars>>

\* a group's call raised: the exception leaves the grouped forward
grouped_raise ==
    /\ gpc = "invoke"
    /\ pc = "raised"
    /\ gpc' = "raised"
    /\ g_ret' = [kind |-> "raise", raised |-> raised]
    /\ UNCHANGED <<forward_kwargs, x_chunk, g_indices, out, out_cutoffs>>
    /\ UNCHANGED <<engineVars, frameVars, codes_ret, distVars>>

\* the caller is done with the result of the last call
release ==
    /\ CallFinished
    /\ ClearFrame
    /\ ClearGroup
    /\ codes_ret' = NoCall
    /\ UNCHANGED <<engineVars, distVars>>

Next ==
    \/ ConstructResidualVQ
    \/ ConstructGroupedResidualVQ
    \/ train
    \/ eval
    \/ forward
    \/ forward_layer
    \/ forward_end
    \/ GetCodesFromIndices
    \/ grouped_forward
    \/ grouped_next
    \/ grouped_raise
    \/ release

Spec == Init /\ [][Next]_vars


\* ------------------------------------- the dropout decision, distributed
\* Every process of the group runs forward on its replica of one engine, in
\* training mode with dropout enabled and no fixed seed: the branch that
\* synchronises a seed through dist.all_reduce.
Procs == DOMAIN d_pc

InitDist ==
    /\ \E a \in CtorArgs, d \in (CodebookDim - 1)..CodebookDim :
        LET args == WithDim(a, d, 1)
            r == ResidualVQ_init(args)
        IN  /\ r.raised = ""
            /\ r.obj[1].quantize_dropout
            /\ ctor = [cls |-> "ResidualVQ", args |-> args, raised |-> ""]
            /\ rvqs = r.obj
    /\ training = TRUE
    /\ world_size \in 2..MaxWorld
    /\ EmptyFrame
    /\ EmptyGroup
    /\ codes_ret = NoCall
    /\ d_pc = [p \in 1..world_size |-> "start"]
    /\ d_t = [p \in 1..world_size |-> 0]
    /\ d_handle = [p \in 1..world_size |-> None]
    /\ d_index = [p \in 1..world_size |-> None]
    /\ d_raised = [p \in 1..world_size |-> ""]
    /\ d_reduced = [p \in 1..world_size |-> 0]

\* t = torch.tensor(random.randrange(10_000)); the process enters all_reduce
dist_enter(p) ==
    /\ d_pc[p] = "start"
    /\ ShouldQuantizeDropout(rvqs[1], training, FALSE)
    /\ is_distributed(world_size)
    /\ \E v \in 0..(MaxRandTensor - 1) : d_t' = [d_t EXCEPT ![p] = v]
    /\ d_pc' = [d_pc EXCEPT ![p] = "all_reduce"]
    /\ UNCHANGED <<d_handle, d_index, d_raised, d_reduced>>
    /\ UNCHANGED <<engineVars, frameVars, groupVars, codes_ret>>

\* the collective completes once every process has entered it
dist_all_reduce ==
    /\ \A p \in Procs : d_pc[p] = "all_reduce"
    /\ LET r == all_reduce(d_t)
       IN  /\ d_t' = [p \in Procs |-> r.tensor]
           /\ d_handle' = [p \in Procs |-> r.handle]
    /\ d_reduced' = [p \in Procs |-> d_reduced[p] + 1]
    /\ d_pc' = [p \in Procs |-> "reduced"]
    /\ UNCHANGED <<d_index, d_raised>>
    /\ UNCHANGED <<engineVars, frameVars, groupVars, codes_ret>>

\* dropout_seed = (what all_reduce returned).item(), then the sampling
dist_item(p) ==
    /\ d_pc[p] = "reduced"
    /\ LET dropout_seed == item(d_handle[p])
           r == randrange(dropout_seed.value, rvqs[1].quantize_dropout_cutoff_index,
                          rvqs[1].num_quantizers)
       IN  IF dropout_seed.raised # ""
           THEN /\ d_pc' = [d_pc EXCEPT ![p] = "raised"]
                /\ d_raised' = [d_raised EXCEPT ![p] = dropout_seed.raised]
                /\ UNCHANGED d_index
           ELSE IF r.raised # ""
           THEN /\ d_pc' = [d_pc EXCEPT ![p] = "raised"]
                /\ d_raised' = [d_raised EXCEPT ![p] = r.raised]
                /\ UNCHANGED d_index
           ELSE /\ d_pc' = [d_pc EXCEPT ![p] = "sampled"]
                /\ d_index' = [d_index EXCEPT ![p] = <<RoundCutoff(rvqs[1], r.value)>>]
                /\ UNCHANGED d_raised
    /\ UNCHANGED <<d_t, d_handle, d_reduced>>
    /\ UNCHANGED <<engineVars, frameVars, groupVars, codes_ret>>

NextDist ==
    \/ \E p \in Procs : dist_enter(p)
    \/ dist_all_reduce
    \/ \E p \in Procs : dist_item(p)

SpecDist == InitDist /\ [][NextDist]_vars


\* ----------------------------------------------------------------- claims
Engine == rvqs[self]

Discovered == pc = "returned" /\ ret.kind = "discovery"

Cutoff == rand_quantize_dropout_index[1]

\* C1: round trip. After a discovery-mode forward call, with or without
\* dropout, get_output_from_indices of the returned index tensor equals the
\* returned reconstruction.
C1_RoundTrip ==
    Discovered => get_output_from_indices(Engine, ret.all_indices) = ret.quantized_down

C1_Witness ==
    /\ Discovered
    /\ should_quantize_dropout
    /\ Cutoff < Engine.num_quantizers - 1
    /\ Engine.has_projections
    /\ HasSentinel(ret.all_indices)

\* C2: a discovery-mode call returns num_quantizers index columns and
\* num_quantizers losses; with dropout active every stage beyond the cutoff
\* is -1 at every position, has a zero loss, and decodes to the zero vector;
\* without dropout no entry is -1.
C2_SentinelShape ==
    Discovered =>
        /\ \A p \in Positions : Len(ret.all_indices[p]) = Engine.num_quantizers
        /\ Len(ret.all_losses) = Engine.num_quantizers
        /\ should_quantize_dropout =>
             \A q \in 0..(Engine.num_quantizers - 1) :
                q > Cutoff =>
                    /\ ret.all_losses[q + 1] = 0
                    /\ \A p \in Positions :
                        /\ ret.all_indices[p][q + 1] = -1
                        /\ get_codes_from_indices(Engine, ret.all_indices).codes[q + 1][p]
                               = Zeros(CodebookDim)
        /\ ~should_quantize_dropout => ~HasSentinel(ret.all_indices)

C2_Witness ==
    /\ Discovered
    /\ should_quantize_dropout
    /\ Cutoff + 2 < Engine.num_quantizers

\* C3 as stated: with dropout active the final cutoff lies in [c, n-1], and
\* for g > 1 cutoff+1 is a multiple of g or the cutoff is n-1.
C3_Original ==
    (should_quantize_dropout /\ exists(rand_quantize_dropout_index)) =>
        /\ Engine.quantize_dropout_cutoff_index <= Cutoff
        /\ Cutoff <= Engine.num_quantizers - 1
        /\ Engine.quantize_dropout_multiple_of > 1 =>
             \/ (Cutoff + 1) % Engine.quantize_dropout_multiple_of = 0
             \/ Cutoff = Engine.num_quantizers - 1

\* C3 amended: with dropout active the final cutoff is at least c and less
\* than n rounded up to a multiple of g (so it can exceed n-1, and then no
\* stage is dropped); for g > 1 cutoff+1 is always a multiple of g.
C3_CutoffBounds ==
    (should_quantize_dropout /\ exists(rand_quantize_dropout_index)) =>
        LET g == Engine.quantize_dropout_multiple_of
            n == Engine.num_quantizers
        IN  /\ Engine.quantize_dropout_cutoff_index <= Cutoff
            /\ Cutoff <= round_up_multiple(n, g) - 1
            /\ g > 1 => (Cutoff + 1) % g = 0

C3_Witness ==
    /\ should_quantize_dropout
    /\ exists(rand_quantize_dropout_index)
    /\ pc = "returned"
    /\ Engine.quantize_dropout_multiple_of > 1
    /\ Cutoff > Engine.num_quantizers - 1

\* C4: a forward call with sentinel-free target indices runs every stage
\* with its own column as override, applies no dropout, and returns the pair
\* (project_out(accumulated), sum of the stage losses).
C4_ReconstructionReturns ==
    (pc \in {"returned", "raised"} /\ exists(indices) /\ ~HasSentinel(indices)) =>
        /\ pc = "returned"
        /\ ~should_quantize_dropout
        /\ Len(calls) = Engine.num_quantizers
        /\ \A i \in 1..Len(calls) :
            calls[i].indices = [p \in Positions |-> indices[p][i]]
        /\ ret = [kind |-> "ce", quantized_down |-> project_out(Engine, quantized_out),
                  ce_loss |-> SumInts(ce_losses)]

\* C5: after every iteration of the stage loop accumulated is the sum of the
\* quantized outputs of the stages that ran and residual is the projected
\* input minus accumulated; dropped stages add nothing, so the returned
\* pre-projection sum is the sum over the stages that ran.
C5_ResidualCorrect ==
    (pc \in {"loop", "end", "returned"}) =>
        LET ran == [i \in 1..Len(calls) |-> calls[i].quantized]
            skipped == IF should_quantize_dropout
                       THEN Cardinality({q \in 0..(quantizer_index - 1) : q > Cutoff})
                       ELSE 0
        IN  /\ quantized_out = SumTensors(ran, CodebookDim)
            /\ residual = TSub(x_pjt_in, quantized_out)
            /\ Len(calls) + skipped = quantizer_index
            /\ Discovered => ret.quantized_out = SumTensors(ran, CodebookDim)

C5_Witness ==
    /\ Discovered
    /\ should_quantize_dropout
    /\ Len(calls) >= 2
    /\ Len(calls) < Engine.num_quantizers
    /\ quantized_out # ZeroTensor(CodebookDim)

\* C6: with more than one process, dropout active and no fixed seed, every
\* process performs exactly one collective reduction, completes, and all
\* processes end with the same cutoff.
C6_SeedAgreement ==
    \A p \in Procs :
        /\ d_pc[p] # "raised"
        /\ d_pc[p] = "sampled" => d_reduced[p] = 1
        /\ \A r \in Procs :
            (d_pc[p] = "sampled" /\ d_pc[r] = "sampled") => d_index[p] = d_index[r]

\* C7: one grouped forward call hands every group the one seed it drew, so
\* with dropout active all groups (same configuration, same fixed seed) use
\* the same cutoff and have -1 at the same stage positions.
SentinelPattern(idx) == [p \in 1..Len(idx) |-> [q \in 1..Len(idx[p]) |-> idx[p][q] = -1]]

C7_GroupedCorrelation ==
    /\ (gpc = "invoke" /\ pc # "idle") =>
            rand_quantize_dropout_fixed_seed = forward_kwargs.rand_quantize_dropout_fixed_seed
    /\ \A g \in 1..Len(out) : \A h \in 1..Len(out) :
        /\ out_cutoffs[g] = out_cutoffs[h]
        /\ (out[g].kind = "discovery" /\ out[h].kind = "discovery") =>
               SentinelPattern(out[g].all_indices) = SentinelPattern(out[h].all_indices)
    /\ \A g \in 1..Len(out) :
        (gpc = "invoke" /\ pc \in {"loop", "end", "returned"}) =>
            out_cutoffs[g] = [active |-> should_quantize_dropout,
                              index |-> rand_quantize_dropout_index]

C7_Witness ==
    /\ gpc = "returned"
    /\ Len(out) >= 2
    /\ out_cutoffs[1].active
    /\ HasSentinel(out[1].all_indices)
    /\ HasSentinel(out[2].all_indices)
    /\ rvqs[1].layers # rvqs[2].layers

\* C8: get_codes_from_indices on fewer than num_quantizers columns raises
\* unless dropout is enabled; with dropout enabled it pads with -1, looks up
\* with -1 replaced by 0 (every lookup index in range), and returns
\* num_quantizers codes: zero at padded or -1 positions, the stage's codebook
\* vector elsewhere.
C8_CoarseIndices ==
    (codes_ret.kind = "codes" /\ Len(codes_ret.indices[1]) < rvqs[1].num_quantizers) =>
        LET w == Len(codes_ret.indices[1])
            rvq == rvqs[1]
        IN  /\ ~rvq.quantize_dropout => codes_ret.raised = "AssertionError"
            /\ rvq.quantize_dropout =>
                /\ codes_ret.raised = ""
                /\ Len(codes_ret.codes) = rvq.num_quantizers
                /\ \A p \in Positions : \A q \in 1..rvq.num_quantizers :
                    /\ codes_ret.lookup[p][q] \in 0..(CodebookSize - 1)
                    /\ (q > w \/ codes_ret.indices[p][q] = -1) =>
                           /\ codes_ret.lookup[p][q] = 0
                           /\ codes_ret.codes[q][p] = Zeros(CodebookDim)
                    /\ (q <= w /\ codes_ret.indices[p][q] # -1) =>
                           codes_ret.codes[q][p]
                               = rvq.layers[q][codes_ret.indices[p][q] + 1]

C8_Witness ==
    /\ codes_ret.kind = "codes"
    /\ rvqs[1].quantize_dropout
    /\ Len(codes_ret.indices[1]) >= 1
    /\ Len(codes_ret.indices[1]) < rvqs[1].num_quantizers
    /\ codes_ret.raised = ""
    /\ \E p \in Positions : codes_ret.indices[p][1] = -1
    /\ \E p \in Positions : codes_ret.indices[p][1] > 0

\* C9 as stated: construction is rejected when the cutoff index is <= 0,
\* when heads is not 1, or (grouped) when dim is not divisible by groups.
C9_Original ==
    (ctor.cls # "none" /\
        (\/ ctor.args.quantize_dropout_cutoff_index <= 0
         \/ ctor.args.heads # 1
         \/ (ctor.cls = "GroupedResidualVQ" /\ ctor.args.dim % ctor.args.groups # 0))) =>
        (ctor.raised # "" /\ rvqs = <<>>)

\* C9 amended: construction is rejected when the cutoff index is negative,
\* when heads is not 1, or (grouped) when dim is not divisible by groups; a
\* rejected construction leaves no engine.
C9_ConstructionRejected ==
    /\ (ctor.cls # "none" /\
          (\/ ctor.args.quantize_dropout_cutoff_index < 0
           \/ ctor.args.heads # 1
           \/ (ctor.cls = "GroupedResidualVQ" /\ ctor.args.dim % ctor.args.groups # 0))) =>
          (ctor.raised # "" /\ rvqs = <<>>)
    /\ (ctor.cls # "none" /\ ctor.raised # "") => rvqs = <<>>

C9_Witness ==
    /\ ctor.cls = "ResidualVQ"
    /\ ctor.args.heads = 1
    /\ ctor.args.quantize_dropout_cutoff_index < 0
    /\ ctor.raised = "AssertionError"

\* C10: within one forward call the stages are invoked in ascending order,
\* each at most once, as a prefix of the chain; once the loop has run the
\* prefix is not empty, and a discovery-mode call never takes the mean of an
\* empty breakdown list.
C10_StageSchedule ==
    /\ \A i \in 1..Len(calls) : calls[i].layer = i - 1
    /\ Len(calls) <= quantizer_index
    /\ (pc \in {"loop", "end", "returned"} /\ quantizer_index > 0) => Len(calls) >= 1
    /\ (pc \in {"end", "returned"} /\ ~exists(indices)) =>
           /\ Len(all_loss_breakdown) >= 1
           /\ Len(all_loss_breakdown) = Len(calls)
    /\ (pc = "raised" /\ ~exists(indices)) => raised # "RuntimeError"

C10_Witness ==
    /\ Discovered
    /\ should_quantize_dropout
    /\ Cutoff = 0
    /\ Len(calls) = 1
    /\ Engine.num_quantizers >= 3

====
